---- MODULE Spec2Model ----
(***************************************************************************)
(* A model of hex-engine's Grid container (packages/2d Models/Grid) and of *)
(* the Ogmo project / level loader (packages/2d Components/Ogmo).          *)
(*                                                                         *)
(* Coordinates and sizes are integers.  A JavaScript array is a sequence   *)
(* whose element k (0-based) is the sequence's element k + 1.              *)
(***************************************************************************)
EXTENDS Integers, Sequences, FiniteSets, TLC

VARIABLES
    grid,         \* the Grid object: [size, data, defaultValue]
    lastWritten,  \* history: per in-range cell, the value of the last successful write
    before,       \* history: the Grid object as it was before the last call
    call,         \* history: the last call made on the grid, with its arguments
    ret,          \* history: how the last call ended (returned value or thrown error)
    nCalls,       \* number of calls made so far
    gens,         \* the generator objects returned by contents(), by handle
    out,          \* history: the triples each generator has yielded so far
    pc,           \* loader: "new", then "project" once Ogmo.Project was called,
                  \* then "level" once useLevel was called
    rawProject,   \* loader: the arguments Ogmo.Project was called with
    project,      \* loader: the project object Ogmo.Project built
    projectRet,   \* loader: how the call of Ogmo.Project ended
    rawLevel,     \* loader: the level data useLevel was called with
    levelRet,     \* loader: how useLevel ended, with the level it returned
    effects,      \* loader: the calls useLevel made on the entity runtime and on
                  \* the factories, in order
    decals        \* loader: the Ogmo.Decal components created, in order

gridVars == <<grid, lastWritten, before, call, ret, nCalls>>
genVars == <<gens, out>>
ogmoVars == <<pc, rawProject, project, projectRet, rawLevel, levelRet, effects, decals>>
vars == <<grid, lastWritten, before, call, ret, nCalls, gens, out,
          pc, rawProject, project, projectRet, rawLevel, levelRet, effects, decals>>

----------------------------------------------------------------------------
(* Bounds of the model *)

MaxRows == 3      \* largest size.x of a grid
MaxColumns == 2   \* largest size.y of a grid
MaxCalls == 2     \* calls made on one grid
MaxGens == 2      \* generators of one grid alive at a time

Rows == 0..MaxRows
Columns == 0..MaxColumns
Values == {1, 2}
DefaultValues == {0, 9}

\* the flat inputs of setData are <<1, 2, ..., n>>: for a grid of capacity c,
\* those of the lengths around 0 and around c
Iota(n) == [k \in 1..n |-> k]
Flats(c) == {Iota(n) : n \in {0, 1, c - 1, c, c + 1, c + 2} \cap Nat}

\* the coordinates given to set and get: the four corners of the grid and one
\* step outside each of its four edges
Coords(size) ==
    {<<0, 0>>, <<size.x - 1, 0>>, <<0, size.y - 1>>, <<size.x - 1, size.y - 1>>,
     <<-1, 0>>, <<size.x, 0>>, <<0, -1>>, <<0, size.y>>}

NoError == [kind |-> "none"]
NoValue == [kind |-> "undefined"]
NoProject == [kind |-> "none"]
NoLevel == [kind |-> "none"]
NoReturn == [threw |-> FALSE, error |-> NoError]

\* the loader's variables while only a grid is exercised
OgmoIdle ==
    /\ pc = "new"
    /\ rawProject = NoProject
    /\ project = NoProject
    /\ projectRet = NoReturn
    /\ rawLevel = NoLevel
    /\ levelRet = [threw |-> FALSE, error |-> NoError, level |-> NoLevel]
    /\ effects = <<>>
    /\ decals = <<>>

----------------------------------------------------------------------------
(* Grid *)

\* new Grid(rows, columns, defaultValue): data is an array of `columns` arrays
\* of `rows` cells
NewGrid(rows, columns, defaultValue) ==
    [size |-> [x |-> rows, y |-> columns],
     data |-> [c \in 1..columns |-> [r \in 1..rows |-> defaultValue]],
     defaultValue |-> defaultValue]

\* the bounds test shared by get and set
OutOfBounds(g, row, column) ==
    \/ row > g.size.x - 1
    \/ row < 0
    \/ column > g.size.y - 1
    \/ column < 0

\* a get whose upper bound on the row is off by one
GetShortRow(g, row, column) ==
    IF row > g.size.x - 2 \/ OutOfBounds(g, row, column)
    THEN g.defaultValue
    ELSE g.data[column + 1][row + 1]

\* get(row, column)
Get(g, row, column) ==
    IF OutOfBounds(g, row, column)
    THEN g.defaultValue
    ELSE g.data[column + 1][row + 1]

\* the Error thrown by set, with the four numbers its message interpolates
OutOfBoundsError(g, row, column) ==
    [kind |-> "GridOutOfBounds",
     sizeX |-> g.size.x, sizeY |-> g.size.y,
     row |-> row, column |-> column]

\* a set that ignores an out-of-bounds write instead of throwing
GridSetLenient(g, row, column, value) ==
    IF OutOfBounds(g, row, column)
    THEN [threw |-> FALSE, error |-> NoError, grid |-> g]
    ELSE [threw |-> FALSE, error |-> NoError,
          grid |-> [g EXCEPT !.data[column + 1][row + 1] = value]]

\* set(row, column, value): the grid afterwards and whether it threw
GridSet(g, row, column, value) ==
    IF OutOfBounds(g, row, column)
    THEN [threw |-> TRUE, error |-> OutOfBoundsError(g, row, column), grid |-> g]
    ELSE [threw |-> FALSE, error |-> NoError,
          grid |-> [g EXCEPT !.data[column + 1][row + 1] = value]]

\* a wrap test against the grid's height instead of its width
WrapOnHeight(g, currentX) == currentX + 1 > g.size.y

\* setData's test for moving the cursor to the next line
Wrap(g, currentX) == currentX + 1 > g.size.x

\* the loop of setData from element k on, with the cursor (currentX, currentY);
\* calls is the sequence of set calls made so far
RECURSIVE SetDataLoop(_, _, _, _, _, _)
SetDataLoop(g, data, k, currentX, currentY, calls) ==
    IF k > Len(data)
    THEN [threw |-> FALSE, error |-> NoError, grid |-> g, calls |-> calls]
    ELSE LET wrap == Wrap(g, currentX)
             cy == IF wrap THEN currentY + 1 ELSE currentY
             cx == IF wrap THEN 0 ELSE currentX
             r == GridSet(g, cx, cy, data[k])
             made == Append(calls, <<cx, cy, data[k]>>)
         IN  IF r.threw
             THEN [threw |-> TRUE, error |-> r.error, grid |-> r.grid, calls |-> made]
             ELSE SetDataLoop(r.grid, data, k + 1, cx + 1, cy, made)

\* a setData that puts the grid back when a set throws
GridSetDataAtomic(g, data) ==
    LET r == SetDataLoop(g, data, 1, 0, 0, <<>>)
    IN  IF r.threw THEN [r EXCEPT !.grid = g] ELSE r

\* setData(data)
GridSetData(g, data) == SetDataLoop(g, data, 1, 0, 0, <<>>)

\* the loops of contents() from the cursor (i, j) up to the next yield: the
\* generator suspended at the yield for (i, j), or finished
RECURSIVE Advance(_, _, _)
Advance(g, i, j) ==
    IF i < g.size.x
    THEN IF j < g.size.y
         THEN [pc |-> "yielded", i |-> i, j |-> j]
         ELSE Advance(g, i + 1, 0)
    ELSE [pc |-> "done", i |-> i, j |-> j]

\* contents(): a new generator object, its body not yet entered
NewGen == [pc |-> "start", i |-> 0, j |-> 0]

\* next() on a generator: run its body from where it is suspended
Resume(g, gen) ==
    IF gen.pc = "start" THEN Advance(g, 0, 0)
    ELSE IF gen.pc = "yielded" THEN Advance(g, gen.i, gen.j + 1)
    ELSE gen

\* generators that step one cursor kept with the grid, not one each
GensAfterNextShared(gs, id, g) ==
    [h \in DOMAIN gs |->
        IF gs[h].pc \in {"start", "yielded"}
        THEN [Resume(g, gs[id]) EXCEPT !.pc = IF h = id THEN @ ELSE gs[h].pc]
        ELSE gs[h]]

\* the generators after next() on generator id: i and j are locals of that
\* generator's own frame
GensAfterNext(gs, id, g) == [gs EXCEPT ![id] = Resume(g, gs[id])]

----------------------------------------------------------------------------
(* History of writes, kept apart from Grid.data *)

Cells(rows, columns) == (0..(rows - 1)) \X (0..(columns - 1))

Note(w, row, column, value) ==
    IF <<row, column>> \in DOMAIN w
    THEN [w EXCEPT ![<<row, column>>] = value]
    ELSE w

RECURSIVE NoteAll(_, _, _)
NoteAll(w, calls, n) ==
    IF n = 0 THEN w
    ELSE Note(NoteAll(w, calls, n - 1), calls[n][1], calls[n][2], calls[n][3])

----------------------------------------------------------------------------
(* Operations on the grid *)

Init ==
    /\ \E rows \in Rows, columns \in Columns, d \in DefaultValues :
          /\ grid = NewGrid(rows, columns, d)
          /\ lastWritten = [c \in Cells(rows, columns) |-> d]
          /\ call = [op |-> "new", row |-> rows, column |-> columns,
                     value |-> d, data |-> <<>>]
    /\ before = grid
    /\ ret = [threw |-> FALSE, error |-> NoError, value |-> NoValue, calls |-> <<>>]
    /\ nCalls = 0
    /\ gens = <<>>
    /\ out = <<>>
    /\ OgmoIdle

Set(row, column, value) ==
    /\ nCalls < MaxCalls
    /\ LET r == GridSet(grid, row, column, value)
       IN  /\ grid' = r.grid
           /\ ret' = [threw |-> r.threw, error |-> r.error, value |-> NoValue,
                      calls |-> <<>>]
           /\ lastWritten' = IF r.threw THEN lastWritten
                             ELSE Note(lastWritten, row, column, value)
    /\ before' = grid
    /\ call' = [op |-> "set", row |-> row, column |-> column, value |-> value,
                data |-> <<>>]
    /\ nCalls' = nCalls + 1
    /\ UNCHANGED genVars
    /\ UNCHANGED ogmoVars

GetCall(row, column) ==
    /\ nCalls < MaxCalls
    /\ ret' = [threw |-> FALSE, error |-> NoError,
               value |-> Get(grid, row, column), calls |-> <<>>]
    /\ before' = grid
    /\ call' = [op |-> "get", row |-> row, column |-> column, value |-> 0,
                data |-> <<>>]
    /\ nCalls' = nCalls + 1
    /\ UNCHANGED <<grid, lastWritten>>
    /\ UNCHANGED genVars
    /\ UNCHANGED ogmoVars

SetData(data) ==
    /\ nCalls < MaxCalls
    /\ LET r == GridSetData(grid, data)
           done == IF r.threw THEN Len(r.calls) - 1 ELSE Len(r.calls)
       IN  /\ grid' = r.grid
           /\ ret' = [threw |-> r.threw, error |-> r.error, value |-> NoValue,
                      calls |-> r.calls]
           /\ lastWritten' = NoteAll(lastWritten, r.calls, done)
    /\ before' = grid
    /\ call' = [op |-> "setData", row |-> 0, column |-> 0, value |-> 0,
                data |-> data]
    /\ nCalls' = nCalls + 1
    /\ UNCHANGED genVars
    /\ UNCHANGED ogmoVars

Next ==
    \/ \E p \in Coords(grid.size), value \in Values : Set(p[1], p[2], value)
    \/ \E data \in Flats(grid.size.x * grid.size.y) : SetData(data)
    \/ \E p \in Coords(grid.size) : GetCall(p[1], p[2])

Spec == Init /\ [][Next]_vars

----------------------------------------------------------------------------
(* Traversals of a grid by contents() *)

GenIds == 1..MaxGens

\* a grid as the level loader leaves it: constructed, then loaded by setData
\* with no more elements than it holds
InitContents ==
    /\ \E rows \in Rows, columns \in Columns, d \in DefaultValues :
          \E data \in Flats(rows * columns) :
             /\ Len(data) <= rows * columns
             /\ before = NewGrid(rows, columns, d)
             /\ call = [op |-> "setData", row |-> 0, column |-> 0, value |-> 0,
                        data |-> data]
             /\ LET r == GridSetData(before, data)
                IN  /\ grid = r.grid
                    /\ ret = [threw |-> r.threw, error |-> r.error,
                              value |-> NoValue, calls |-> r.calls]
                    /\ lastWritten =
                          NoteAll([c \in Cells(rows, columns) |-> d], r.calls,
                                  Len(r.calls))
    /\ nCalls = 1
    /\ gens = [id \in GenIds |-> [pc |-> "none", i |-> 0, j |-> 0]]
    /\ out = [id \in GenIds |-> <<>>]
    /\ OgmoIdle

\* gen = grid.contents()
ContentsCall(id) ==
    /\ gens' = [gens EXCEPT ![id] = NewGen]
    /\ out' = [out EXCEPT ![id] = <<>>]
    /\ UNCHANGED gridVars
    /\ UNCHANGED ogmoVars

\* gen.next() on a generator that has not finished
ContentsNext(id) ==
    /\ gens[id].pc \in {"start", "yielded"}
    /\ gens' = GensAfterNext(gens, id, grid)
    /\ out' = [out EXCEPT ![id] =
                  IF gens'[id].pc = "yielded"
                  THEN Append(@, <<gens'[id].i, gens'[id].j,
                                   Get(grid, gens'[id].i, gens'[id].j)>>)
                  ELSE @]
    /\ UNCHANGED gridVars
    /\ UNCHANGED ogmoVars

NextContents ==
    \/ \E id \in GenIds : ContentsCall(id)
    \/ \E id \in GenIds : ContentsNext(id)

SpecContents == InitContents /\ [][NextContents]_vars

----------------------------------------------------------------------------
(* The Ogmo loader: values *)

\* the value of a property an object does not have
Undefined == [undefined |-> TRUE]

\* obj[f] of a JavaScript object
Field(obj, f) == IF f \in DOMAIN obj THEN obj[f] ELSE Undefined

\* { ...obj, ...over }
Spread(obj, over) ==
    [f \in DOMAIN obj \cup DOMAIN over |-> IF f \in DOMAIN over THEN over[f] ELSE obj[f]]

\* a number: n / d, times pi when pi = 1
Num(n, d) == [n |-> n, d |-> d, pi |-> 0]

\* x * (Math.PI / 180)
TimesPiOver180(x) == [n |-> x.n, d |-> x.d * 180, pi |-> x.pi + 1]

\* whether two numbers are the same number
SameNumber(a, b) ==
    \/ a.n = 0 /\ b.n = 0
    \/ a.pi = b.pi /\ a.n * b.d = b.n * a.d

\* new Vector(x, y) and Vector.from({x, y})
Vector(x, y) == [x |-> x, y |-> y]
VectorFrom(v) == Vector(v.x, v.y)

First(S) == CHOOSE i \in S : \A j \in S : i <= j

SeqsUpTo(S, n) == UNION {[1..m -> S] : m \in 0..n}

----------------------------------------------------------------------------
(* The Ogmo loader: the documents it is given *)

MaxProjectLayers == 2   \* layer definitions of a project
MaxLevelLayers == 2     \* layers of a level

RawTileset(label) ==
    [label |-> label, path |-> label, tileWidth |-> 16, tileHeight |-> 8,
     tileSeparationX |-> 0, tileSeparationY |-> 1]

RawTilesetLists == {<<RawTileset("ground")>>, <<RawTileset("ground"), RawTileset("walls")>>}

\* a layer definition of each kind; a kind's layers share an exportID
RawProjectLayers ==
    {[definition |-> "tile", name |-> "", gridSize |-> [x |-> 16, y |-> 8],
      exportID |-> "T", exportMode |-> 0, arrayMode |-> 0, defaultTileset |-> label] :
        label \in {"ground", "walls"}}
    \cup
    {[definition |-> "grid", name |-> "", gridSize |-> [x |-> 16, y |-> 8],
      exportID |-> "G", arrayMode |-> 0],
     [definition |-> "entity", name |-> "", gridSize |-> [x |-> 16, y |-> 8],
      exportID |-> "E"],
     [definition |-> "decal", name |-> "", gridSize |-> [x |-> 16, y |-> 8],
      exportID |-> "D", rotatable |-> TRUE]}

LayerNames == <<"background", "solids", "actors", "overlay">>

\* the layer definitions of a project document, named by their place
Named(layers) == [i \in DOMAIN layers |-> [layers[i] EXCEPT !.name = LayerNames[i]]]

RawProjectLayerLists == {Named(l) : l \in SeqsUpTo(RawProjectLayers, MaxProjectLayers)}

\* the names with an entity factory, and whether a decal factory is given
EntityFactoryNames == {"player", "coin"}
DecalFactories == {"default", "custom"}

----------------------------------------------------------------------------
(* Ogmo.Project *)

\* a lookup that falls back to the first tileset
FindTilesetOrFirst(tilesets, label) ==
    LET hits == {i \in DOMAIN tilesets : tilesets[i].label = label}
    IN  IF hits = {} THEN (IF tilesets = <<>> THEN 0 ELSE 1) ELSE First(hits)

\* project.tilesets.find(tileset => tileset.label === label): the place of the
\* first match, 0 for undefined
FindTileset(tilesets, label) ==
    LET hits == {i \in DOMAIN tilesets : tilesets[i].label = label}
    IN  IF hits = {} THEN 0 ELSE First(hits)

\* the map over projectData.tilesets
ParseTilesets(raw) ==
    [i \in DOMAIN raw |->
        [label |-> raw[i].label,
         path |-> raw[i].path,
         tileSize |-> Vector(raw[i].tileWidth, raw[i].tileHeight),
         tileSeparation |-> Vector(raw[i].tileSeparationX, raw[i].tileSeparationY)]]

UnresolvedTilesetError(index, label) ==
    [kind |-> "UnresolvedTileset", index |-> index, label |-> label]

\* the map over projectData.layers, from element k on (index k - 1)
RECURSIVE ParseProjectLayers(_, _, _, _)
ParseProjectLayers(tilesets, raw, k, acc) ==
    IF k > Len(raw)
    THEN [threw |-> FALSE, error |-> NoError, layers |-> acc]
    ELSE LET layer == raw[k]
         IN  IF layer.definition = "tile"
             THEN LET t == FindTileset(tilesets, layer.defaultTileset)
                  IN  IF t = 0
                      THEN [threw |-> TRUE,
                            error |-> UnresolvedTilesetError(k - 1, layer.defaultTileset),
                            layers |-> acc]
                      ELSE ParseProjectLayers(tilesets, raw, k + 1,
                              Append(acc, Spread(layer,
                                 [gridSize |-> VectorFrom(layer.gridSize),
                                  defaultTileset |-> tilesets[t]])))
             ELSE ParseProjectLayers(tilesets, raw, k + 1,
                     Append(acc, Spread(layer, [gridSize |-> VectorFrom(layer.gridSize)])))

\* OgmoProject(projectData, entityFactories, decalFactory)
OgmoProject(projectData, entityFactories, decalFactory) ==
    LET tilesets == ParseTilesets(projectData.tilesets)
        r == ParseProjectLayers(tilesets, projectData.layers, 1, <<>>)
    IN  IF r.threw
        THEN [threw |-> TRUE, error |-> r.error, project |-> NoProject]
        ELSE [threw |-> FALSE, error |-> NoError,
              project |-> [entityFactories |-> entityFactories,
                           createDecal |-> decalFactory,
                           tilesets |-> tilesets,
                           layers |-> r.layers]]

GridIdle ==
    /\ grid = NewGrid(0, 0, 0)
    /\ lastWritten = <<>>
    /\ before = grid
    /\ call = [op |-> "none"]
    /\ ret = NoReturn
    /\ nCalls = 0
    /\ gens = <<>>
    /\ out = <<>>

InitOgmo ==
    /\ GridIdle
    /\ OgmoIdle

OgmoProjectCall(projectData, entityFactories, decalFactory) ==
    /\ pc = "new"
    /\ pc' = "project"
    /\ rawProject' = projectData
    /\ LET r == OgmoProject(projectData, entityFactories, decalFactory)
       IN  /\ project' = r.project
           /\ projectRet' = [threw |-> r.threw, error |-> r.error]
    /\ UNCHANGED <<rawLevel, levelRet, effects, decals>>
    /\ UNCHANGED gridVars
    /\ UNCHANGED genVars

----------------------------------------------------------------------------
(* The Ogmo loader: level documents *)

Player == [name |-> "player", id |-> 1, _eid |-> "p1", x |-> 8, y |-> 16,
           rotation |-> Num(90, 1)]
Coin == [name |-> "coin", id |-> 2, _eid |-> "c1", x |-> 24, y |-> 0]
Statue == [name |-> "player", id |-> 3, _eid |-> "p1", x |-> 0, y |-> 0,
           rotation |-> Num(0, 1), flippedX |-> TRUE]
Ghost == [name |-> "ghost", id |-> 4, _eid |-> "g1", x |-> 1, y |-> 2,
          rotation |-> Num(45, 1)]

Tree == [x |-> 4, y |-> 5, rotation |-> Num(12, 10), scaleX |-> 2, texture |-> "tree.png"]
Rock == [x |-> 0, y |-> 7, texture |-> "rock.png"]

\* the raw layers of a level document: a tile layer that fills its grid and one
\* with an element too many, a grid layer one element short, entity layers
\* without and with a placement nobody has a factory for, a decal layer, and
\* a layer whose _eid no project defines
RawLevelLayers ==
    {[_eid |-> "T", gridCellsX |-> 3, gridCellsY |-> 2, data |-> Iota(6)],
     [_eid |-> "T", gridCellsX |-> 3, gridCellsY |-> 2, data |-> Iota(7)],
     [_eid |-> "G", gridCellsX |-> 2, gridCellsY |-> 2, grid |-> <<"1", "0", "1">>],
     [_eid |-> "E", entities |-> <<Player, Coin, Statue>>],
     [_eid |-> "E", entities |-> <<Coin, Ghost, Player>>],
     [_eid |-> "D", decals |-> <<Tree, Rock>>],
     [_eid |-> "X", entities |-> <<Player>>]}

RawLevels ==
    {[width |-> 48, height |-> 16, offsetX |-> 0, offsetY |-> 8,
      values |-> [difficulty |-> 1], layers |-> l] :
        l \in SeqsUpTo(RawLevelLayers, MaxLevelLayers)}

----------------------------------------------------------------------------
(* Ogmo.Level: parsing the layers *)

\* project.layers.find(projectLayer => projectLayer.exportID === layer._eid):
\* the place of the first match, 0 for undefined
FindProjectLayer(layers, eid) ==
    LET hits == {i \in DOMAIN layers : layers[i].exportID = eid}
    IN  IF hits = {} THEN 0 ELSE First(hits)

UnresolvedLayerError(index, eid) ==
    [kind |-> "UnresolvedLayer", index |-> index, eid |-> eid]

\* a tile grid built with its two extents exchanged
TileLayerGridSwapped(layer) == NewGrid(layer.gridCellsY, layer.gridCellsX, 0)

\* new Grid<number>(layer.gridCellsX, layer.gridCellsY, 0)
TileLayerGrid(layer) == NewGrid(layer.gridCellsX, layer.gridCellsY, 0)

\* new Grid<string>(layer.gridCellsX, layer.gridCellsY, "")
GridLayerGrid(layer) == NewGrid(layer.gridCellsX, layer.gridCellsY, "")

\* the map over levelData.layers, from element k on (index k - 1)
RECURSIVE ParseLevelLayers(_, _, _, _)
ParseLevelLayers(proj, raw, k, acc) ==
    IF k > Len(raw)
    THEN [threw |-> FALSE, error |-> NoError, layers |-> acc]
    ELSE LET layer == raw[k]
             p == FindProjectLayer(proj.layers, layer._eid)
         IN  IF p = 0
             THEN [threw |-> TRUE, error |-> UnresolvedLayerError(k - 1, layer._eid),
                   layers |-> acc]
             ELSE LET projectLayer == proj.layers[p]
                  IN  CASE projectLayer.definition = "tile" ->
                             LET r == GridSetData(TileLayerGrid(layer), layer.data)
                             IN  IF r.threw
                                 THEN [threw |-> TRUE, error |-> r.error, layers |-> acc]
                                 ELSE ParseLevelLayers(proj, raw, k + 1,
                                         Append(acc, [definition |-> "tile",
                                                      projectLayer |-> projectLayer,
                                                      data |-> r.grid]))
                        [] projectLayer.definition = "grid" ->
                             LET r == GridSetData(GridLayerGrid(layer), layer.grid)
                             IN  IF r.threw
                                 THEN [threw |-> TRUE, error |-> r.error, layers |-> acc]
                                 ELSE ParseLevelLayers(proj, raw, k + 1,
                                         Append(acc, [definition |-> "grid",
                                                      projectLayer |-> projectLayer,
                                                      grid |-> r.grid]))
                        [] projectLayer.definition = "entity" ->
                             ParseLevelLayers(proj, raw, k + 1,
                                Append(acc, [definition |-> "entity",
                                             projectLayer |-> projectLayer,
                                             entities |-> layer.entities]))
                        [] projectLayer.definition = "decal" ->
                             ParseLevelLayers(proj, raw, k + 1,
                                Append(acc, [definition |-> "decal",
                                             projectLayer |-> projectLayer,
                                             decals |-> layer.decals]))

----------------------------------------------------------------------------
(* Ogmo.Level: realizing the layers *)

\* an entity rotation handed on as it is in the level
EntityRotationRaw(entData) ==
    IF "rotation" \in DOMAIN entData THEN entData.rotation ELSE Num(0, 1)

\* entData.rotation ? entData.rotation * (Math.PI / 180) : 0
EntityRotation(entData) ==
    LET rotation == Field(entData, "rotation")
    IN  IF rotation # Undefined /\ rotation.n # 0
        THEN TimesPiOver180(rotation)
        ELSE Num(0, 1)

UnresolvedEntityFactoryError(name) ==
    [kind |-> "UnresolvedEntityFactory", name |-> name]

\* obj[f] ?? b
FieldOr(obj, f, b) == IF f \in DOMAIN obj THEN obj[f] ELSE b

\* the Ogmo.Decal component of a decal: its geometry with the placeholder
\* shape, and its image, whose load() has not settled
OgmoDecal(decalData) ==
    [geometry |-> [shape |-> [width |-> 1, height |-> 1],
                   position |-> Vector(decalData.x, decalData.y),
                   rotation |-> Field(decalData, "rotation"),
                   scale |-> Vector(FieldOr(decalData, "scaleX", 1),
                                    FieldOr(decalData, "scaleY", 1))],
     image |-> [url |-> decalData.texture],
     loading |-> TRUE]

\* a createEntity that returns nothing for a name without a factory
CreateEntityOrNothing(proj, data) ==
    [threw |-> FALSE, error |-> NoError, called |-> data.name \in proj.entityFactories]

\* project.createEntity(data): whether it threw, and whether the factory for
\* data.name was called
CreateEntity(proj, data) ==
    IF data.name \in proj.entityFactories
    THEN [threw |-> FALSE, error |-> NoError, called |-> TRUE]
    ELSE [threw |-> TRUE, error |-> UnresolvedEntityFactoryError(data.name),
          called |-> FALSE]

\* layer.entities.forEach from element n on: project.createEntity on a copy of
\* each record; fx is the log of calls so far
RECURSIVE RealizeEntities(_, _, _, _, _)
RealizeEntities(proj, entities, n, at, fx) ==
    IF n > Len(entities)
    THEN [threw |-> FALSE, error |-> NoError, effects |-> fx]
    ELSE LET data == Spread(entities[n], [rotation |-> EntityRotation(entities[n])])
             r == CreateEntity(proj, data)
             made == IF r.called
                     THEN Append(fx, [op |-> "entityFactory", layer |-> at,
                                      index |-> n - 1, arg |-> data,
                                      sameObject |-> FALSE])
                     ELSE fx
         IN  IF r.threw
             THEN [threw |-> TRUE, error |-> r.error, effects |-> made]
             ELSE RealizeEntities(proj, entities, n + 1, at, made)

\* layer.decals.forEach from element n on: project.createDecal on each record
RECURSIVE RealizeDecals(_, _, _, _, _, _)
RealizeDecals(proj, ds, n, at, fx, comps) ==
    IF n > Len(ds)
    THEN [effects |-> fx, decals |-> comps]
    ELSE LET made == Append(fx, [op |-> "decalFactory", factory |-> proj.createDecal,
                                 layer |-> at, index |-> n - 1,
                                 arg |-> ds[n], sameObject |-> TRUE])
         IN  IF proj.createDecal = "default"
             THEN RealizeDecals(proj, ds, n + 1, at,
                     made \o <<[op |-> "useChild", layer |-> at, depth |-> 2],
                               [op |-> "useNewComponent", layer |-> at,
                                component |-> "Geometry"],
                               [op |-> "useNewComponent", layer |-> at,
                                component |-> "Image"],
                               [op |-> "useDraw", layer |-> at, depth |-> 2]>>,
                     Append(comps, OgmoDecal(ds[n])))
             ELSE RealizeDecals(proj, ds, n + 1, at, made, comps)

\* a scope named after the export identifier of the layer definition
ScopeNameExportID(layer) == layer.projectLayer.exportID

\* useEntityName(layer.projectLayer.name)
ScopeName(layer) == layer.projectLayer.name

\* layers.forEach from element k on
RECURSIVE RealizeLayers(_, _, _, _, _)
RealizeLayers(proj, layers, k, fx, comps) ==
    IF k > Len(layers)
    THEN [threw |-> FALSE, error |-> NoError, effects |-> fx, decals |-> comps]
    ELSE LET layer == layers[k]
             at == k - 1
             scoped == fx \o <<[op |-> "useChild", layer |-> at, depth |-> 1],
                               [op |-> "useEntityName", layer |-> at,
                                name |-> ScopeName(layer)]>>
         IN  CASE layer.definition = "tile" ->
                    LET tileset == layer.projectLayer.defaultTileset
                    IN  RealizeLayers(proj, layers, k + 1,
                           scoped \o <<[op |-> "useNewComponent", layer |-> at,
                                        component |-> "SpriteSheet",
                                        url |-> tileset.path,
                                        tileWidth |-> tileset.tileSize.x,
                                        tileHeight |-> tileset.tileSize.y],
                                       [op |-> "useNewComponent", layer |-> at,
                                        component |-> "TileMap", grid |-> layer.data],
                                       [op |-> "useDraw", layer |-> at, depth |-> 1]>>,
                           comps)
               [] layer.definition = "grid" ->
                    RealizeLayers(proj, layers, k + 1, scoped, comps)
               [] layer.definition = "entity" ->
                    LET r == RealizeEntities(proj, layer.entities, 1, at, scoped)
                    IN  IF r.threw
                        THEN [threw |-> TRUE, error |-> r.error, effects |-> r.effects,
                              decals |-> comps]
                        ELSE RealizeLayers(proj, layers, k + 1, r.effects, comps)
               [] layer.definition = "decal" ->
                    LET r == RealizeDecals(proj, layer.decals, 1, at, scoped, comps)
                    IN  RealizeLayers(proj, layers, k + 1, r.effects, r.decals)

\* an OgmoLevel that realizes each layer as soon as it has parsed it
OgmoLevelLayerByLayer(proj, levelData) ==
    LET parsed == ParseLevelLayers(proj, levelData.layers, 1, <<>>)
        r == RealizeLayers(proj, parsed.layers, 1, <<>>, <<>>)
    IN  IF r.threw \/ parsed.threw
        THEN [threw |-> TRUE, error |-> IF r.threw THEN r.error ELSE parsed.error,
              level |-> NoLevel, effects |-> r.effects, decals |-> r.decals]
        ELSE [threw |-> FALSE, error |-> NoError,
              level |-> [size |-> Vector(levelData.width, levelData.height),
                         offset |-> Vector(levelData.offsetX, levelData.offsetY),
                         values |-> levelData.values,
                         layers |-> parsed.layers],
              effects |-> r.effects, decals |-> r.decals]

\* OgmoLevel(project, levelData)
OgmoLevel(proj, levelData) ==
    LET parsed == ParseLevelLayers(proj, levelData.layers, 1, <<>>)
    IN  IF parsed.threw
        THEN [threw |-> TRUE, error |-> parsed.error, level |-> NoLevel,
              effects |-> <<>>, decals |-> <<>>]
        ELSE LET r == RealizeLayers(proj, parsed.layers, 1, <<>>, <<>>)
             IN  IF r.threw
                 THEN [threw |-> TRUE, error |-> r.error, level |-> NoLevel,
                       effects |-> r.effects, decals |-> r.decals]
                 ELSE [threw |-> FALSE, error |-> NoError,
                       level |-> [size |-> Vector(levelData.width, levelData.height),
                                  offset |-> Vector(levelData.offsetX, levelData.offsetY),
                                  values |-> levelData.values,
                                  layers |-> parsed.layers],
                       effects |-> r.effects, decals |-> r.decals]

\* project.useLevel(levelData)
UseLevel(levelData) ==
    /\ pc = "project"
    /\ ~projectRet.threw
    /\ pc' = "level"
    /\ rawLevel' = levelData
    /\ LET r == OgmoLevel(project, levelData)
       IN  /\ levelRet' = [threw |-> r.threw, error |-> r.error, level |-> r.level]
           /\ effects' = r.effects
           /\ decals' = r.decals
    /\ UNCHANGED <<rawProject, project, projectRet>>
    /\ UNCHANGED gridVars
    /\ UNCHANGED genVars

NextOgmo ==
    \/ \E tilesets \in RawTilesetLists, layers \in RawProjectLayerLists,
          decalFactory \in DecalFactories :
          OgmoProjectCall([tilesets |-> tilesets, layers |-> layers],
                          EntityFactoryNames, decalFactory)
    \/ \E levelData \in RawLevels : UseLevel(levelData)

SpecOgmo == InitOgmo /\ [][NextOgmo]_vars

----------------------------------------------------------------------------
(* Properties of get, set and setData *)

InRange(size, row, column) ==
    /\ row \in 0..(size.x - 1)
    /\ column \in 0..(size.y - 1)

Probe == (-1..(MaxRows + 1)) \X (-1..(MaxColumns + 1))

Capacity(g) == g.size.x * g.size.y

\* C1: in every state reached by set and setData calls, failing ones among
\* them, get returns defaultValue for coordinates outside the grid and else
\* the value last written to the cell, defaultValue if none was; a get call
\* never throws and returns just that; right after construction every cell
\* reads defaultValue.
C1_GetNeverFails ==
    /\ \A p \in Probe :
          Get(grid, p[1], p[2]) =
             IF InRange(grid.size, p[1], p[2])
             THEN lastWritten[p]
             ELSE grid.defaultValue
    /\ call.op = "get" =>
          /\ ~ret.threw
          /\ ret.value = IF InRange(grid.size, call.row, call.column)
                         THEN lastWritten[<<call.row, call.column>>]
                         ELSE grid.defaultValue
    /\ call.op = "new" =>
          \A p \in Cells(grid.size.x, grid.size.y) :
             Get(grid, p[1], p[2]) = grid.defaultValue

\* a get of a written cell, after the one call before it has written and then
\* failed (a setData with too many elements)
C1_Witness ==
    /\ call.op = "get"
    /\ InRange(grid.size, call.row, call.column)
    /\ ret.value # grid.defaultValue
    /\ grid # NewGrid(grid.size.x, grid.size.y, grid.defaultValue)
    /\ \A p \in Cells(grid.size.x, grid.size.y) : lastWritten[p] # grid.defaultValue
    /\ grid.size.x > 1 /\ grid.size.y > 1

\* C2: set outside the grid throws the out-of-bounds error carrying the
\* grid's size and the coordinates and changes nothing; set inside the grid
\* writes the value to that cell and changes no other cell.
C2_SetStrict ==
    call.op = "set" =>
       IF InRange(before.size, call.row, call.column)
       THEN /\ ~ret.threw
            /\ grid.size = before.size
            /\ grid.defaultValue = before.defaultValue
            /\ \A p \in Probe :
                  Get(grid, p[1], p[2]) =
                     IF p = <<call.row, call.column>>
                     THEN call.value
                     ELSE Get(before, p[1], p[2])
       ELSE /\ ret.threw
            /\ ret.error = [kind |-> "GridOutOfBounds",
                            sizeX |-> before.size.x, sizeY |-> before.size.y,
                            row |-> call.row, column |-> call.column]
            /\ grid = before

\* a failed set on a grid that holds a written cell
C2_Witness ==
    /\ call.op = "set"
    /\ ret.threw
    /\ ~InRange(before.size, call.row, call.column)
    /\ \E p \in Cells(grid.size.x, grid.size.y) : lastWritten[p] # grid.defaultValue

\* C3: setData of at most size.x * size.y elements, size.x > 0, puts element
\* k at (k mod size.x, k div size.x) and leaves every other cell as it was;
\* Grid(3, 2, 0).setData([1,2,3,4,5,6]) reads 1, 2, 3 along column 0 and
\* 4, 5, 6 along column 1.
C3_SetDataRowWrap ==
    /\ (call.op = "setData" /\ Len(call.data) <= Capacity(before)
          /\ before.size.x > 0) =>
          /\ ~ret.threw
          /\ grid.size = before.size
          /\ \A k \in 0..(Len(call.data) - 1) :
                Get(grid, k % grid.size.x, k \div grid.size.x) = call.data[k + 1]
          /\ \A p \in Cells(grid.size.x, grid.size.y) :
                p[1] + p[2] * grid.size.x >= Len(call.data) =>
                   Get(grid, p[1], p[2]) = Get(before, p[1], p[2])
    /\ (call.op = "setData" /\ before = NewGrid(3, 2, 0)
          /\ call.data = <<1, 2, 3, 4, 5, 6>>) =>
          /\ Get(grid, 0, 0) = 1 /\ Get(grid, 1, 0) = 2 /\ Get(grid, 2, 0) = 3
          /\ Get(grid, 0, 1) = 4 /\ Get(grid, 1, 1) = 5 /\ Get(grid, 2, 1) = 6

\* Grid(3, 2, 0).setData([1,2,3,4,5,6]) has run
C3_Witness ==
    /\ call.op = "setData"
    /\ before = NewGrid(3, 2, 0)
    /\ call.data = <<1, 2, 3, 4, 5, 6>>
    /\ ~ret.threw

\* C4: setData of more than size.x * size.y elements throws set's
\* out-of-bounds error at the first excess element: one set call was made per
\* element up to and including that one and none after it, and the elements
\* before it are in the grid when the error leaves setData.
C4_SetDataOverflow ==
    (call.op = "setData" /\ Len(call.data) > Capacity(before)) =>
       LET n == Capacity(before)
       IN  /\ ret.threw
           /\ ret.error.kind = "GridOutOfBounds"
           /\ Len(ret.calls) = n + 1
           /\ \A k \in 1..(n + 1) : ret.calls[k][3] = call.data[k]
           /\ ret.error.row = ret.calls[n + 1][1]
           /\ ret.error.column = ret.calls[n + 1][2]
           /\ ~InRange(before.size, ret.calls[n + 1][1], ret.calls[n + 1][2])
           /\ grid.size = before.size
           /\ \A k \in 0..(n - 1) :
                 Get(grid, k % grid.size.x, k \div grid.size.x) = call.data[k + 1]

\* a setData that threw with elements left over after the first excess one,
\* on a grid it had filled
C4_Witness ==
    /\ call.op = "setData"
    /\ ret.threw
    /\ Capacity(before) > 1
    /\ Len(call.data) > Capacity(before) + 1
    /\ grid # before

----------------------------------------------------------------------------
(* Properties of contents() *)

\* C5: a full traversal by contents() yields size.x * size.y triples, every
\* coordinate of the grid in exactly one of them, each with the value get
\* returns there; every call of contents() starts a traversal of its own,
\* whatever the other traversals of the grid have consumed.
C5_ContentsComplete ==
    \A id \in GenIds :
       /\ \A k \in 1..Len(out[id]) :
             /\ InRange(grid.size, out[id][k][1], out[id][k][2])
             /\ out[id][k][3] = Get(grid, out[id][k][1], out[id][k][2])
             /\ \A m \in 1..Len(out[id]) :
                   (out[id][m][1] = out[id][k][1] /\ out[id][m][2] = out[id][k][2])
                      => m = k
       /\ gens[id].pc = "start" => out[id] = <<>>
       /\ gens[id].pc = "done" =>
             /\ Len(out[id]) = grid.size.x * grid.size.y
             /\ \A p \in Cells(grid.size.x, grid.size.y) :
                   \E k \in 1..Len(out[id]) :
                      out[id][k][1] = p[1] /\ out[id][k][2] = p[2]

\* one traversal of a loaded grid has finished while a later one is part way
C5_Witness ==
    /\ gens[1].pc = "done"
    /\ gens[2].pc = "yielded"
    /\ Len(out[1]) > 3
    /\ Len(out[2]) \in 1..(Len(out[1]) - 2)
    /\ \E k \in 1..Len(out[1]) : out[1][k][3] # grid.defaultValue

----------------------------------------------------------------------------
(* Properties of the Ogmo loader *)

\* Array.from(grid.contents()): the triples of a traversal run to its end
RECURSIVE Traverse(_, _, _)
Traverse(g, gen, acc) ==
    LET n == Resume(g, gen)
    IN  IF n.pc = "yielded"
        THEN Traverse(g, n, Append(acc, <<n.i, n.j, Get(g, n.i, n.j)>>))
        ELSE acc

Contents(g) == Traverse(g, NewGen, <<>>)

LevelBuilt == pc = "level" /\ ~levelRet.threw

\* the places of the raw level layers, and what the documents say of each
LevelPlaces == IF pc = "level" THEN DOMAIN rawLevel.layers ELSE {}

Definitions(eid) ==
    {i \in DOMAIN rawProject.layers : rawProject.layers[i].exportID = eid}

Unresolved == {k \in LevelPlaces : Definitions(rawLevel.layers[k]._eid) = {}}

KindOf(k) == rawProject.layers[First(Definitions(rawLevel.layers[k]._eid))].definition

Overflowing ==
    {k \in LevelPlaces \ Unresolved :
        LET layer == rawLevel.layers[k]
        IN  \/ KindOf(k) = "tile" /\ Len(layer.data) > layer.gridCellsX * layer.gridCellsY
            \/ KindOf(k) = "grid" /\ Len(layer.grid) > layer.gridCellsX * layer.gridCellsY}

\* the tile layers of the level built whose data has exactly one index per cell
ExactTileLayers ==
    IF LevelBuilt
    THEN {k \in LevelPlaces :
             /\ levelRet.level.layers[k].definition = "tile"
             /\ Len(rawLevel.layers[k].data) =
                   rawLevel.layers[k].gridCellsX * rawLevel.layers[k].gridCellsY}
    ELSE {}

\* C6 as stated: the values contents() yields, in the order it yields them,
\* are the flat array the tile layer was built from.
C6_RoundTripInOrder ==
    \A k \in ExactTileLayers :
       LET t == Contents(levelRet.level.layers[k].data)
       IN  [i \in 1..Len(t) |-> t[i][3]] = rawLevel.layers[k].data

\* C6, amended: contents() yields one triple (row, column, value) per element
\* of the flat array, no cell twice, and value is the array's element at index
\* column * gridCellsX + row; the array is got back by putting each value at
\* that index, not by listing the values in the order they are yielded.
C6_RoundTripByIndex ==
    \A k \in ExactTileLayers :
       LET t == Contents(levelRet.level.layers[k].data)
           layer == rawLevel.layers[k]
       IN  /\ Len(t) = Len(layer.data)
           /\ \A i \in 1..Len(t) :
                 /\ t[i][1] \in 0..(layer.gridCellsX - 1)
                 /\ t[i][2] \in 0..(layer.gridCellsY - 1)
                 /\ t[i][3] = layer.data[t[i][2] * layer.gridCellsX + t[i][1] + 1]
                 /\ \A j \in 1..Len(t) :
                       (t[j][1] = t[i][1] /\ t[j][2] = t[i][2]) => j = i

\* a level was built with a tile layer of as many indices as cells
C6_Witness ==
    \E k \in ExactTileLayers :
       /\ rawLevel.layers[k].gridCellsX > 1
       /\ rawLevel.layers[k].gridCellsY > 1
       /\ Len(Contents(levelRet.level.layers[k].data)) = 6

\* C7 as stated: a level layer whose _eid no project layer definition exports
\* makes useLevel throw the error that names such a layer's index and _eid,
\* return no level, and make no call on the runtime or on a factory.
C7_UnresolvedLayerNamed ==
    Unresolved # {} =>
       /\ levelRet.threw
       /\ levelRet.error.kind = "UnresolvedLayer"
       /\ levelRet.error.index + 1 \in Unresolved
       /\ levelRet.error.eid = rawLevel.layers[levelRet.error.index + 1]._eid
       /\ levelRet.level = NoLevel
       /\ effects = <<>>
       /\ decals = <<>>

\* C7, amended: with such a layer useLevel throws, returns no level and has
\* made no call on the runtime or on a factory; the error names the index and
\* _eid of the first such layer, unless a tile or grid layer before it holds
\* more elements than its grid has cells, and then the error is that setData's
\* out-of-bounds error.
C7_UnresolvedLayerFails ==
    Unresolved # {} =>
       /\ levelRet.threw
       /\ levelRet.level = NoLevel
       /\ effects = <<>>
       /\ decals = <<>>
       /\ LET u == First(Unresolved)
          IN  IF \E k \in Overflowing : k < u
              THEN levelRet.error.kind = "GridOutOfBounds"
              ELSE levelRet.error =
                      [kind |-> "UnresolvedLayer", index |-> u - 1,
                       eid |-> rawLevel.layers[u]._eid]

\* useLevel threw for its second layer, after an entity layer it could resolve
C7_Witness ==
    /\ pc = "level"
    /\ levelRet.threw
    /\ levelRet.error.kind = "UnresolvedLayer"
    /\ levelRet.error.index = 1
    /\ 1 \notin Unresolved
    /\ KindOf(1) = "entity"
    /\ effects = <<>>

\* the tile layer definitions of the project document whose defaultTileset is
\* the label of no tileset of the document
Dangling ==
    IF pc = "new" THEN {}
    ELSE {i \in DOMAIN rawProject.layers :
             /\ rawProject.layers[i].definition = "tile"
             /\ \A t \in DOMAIN rawProject.tilesets :
                   rawProject.tilesets[t].label # rawProject.layers[i].defaultTileset}

\* C8: a tile layer definition naming a tileset label the project has not
\* makes Ogmo.Project throw the error naming the (first such) layer's index
\* and the label, and no project is built; otherwise every tile layer of the
\* project holds as defaultTileset one of the project's tilesets, of the label
\* the definition names.
C8_TilesetResolution ==
    pc # "new" =>
       IF Dangling # {}
       THEN /\ projectRet.threw
            /\ project = NoProject
            /\ projectRet.error =
                  [kind |-> "UnresolvedTileset", index |-> First(Dangling) - 1,
                   label |-> rawProject.layers[First(Dangling)].defaultTileset]
       ELSE /\ ~projectRet.threw
            /\ Len(project.layers) = Len(rawProject.layers)
            /\ \A i \in DOMAIN project.layers :
                  project.layers[i].definition = "tile" =>
                     /\ rawProject.layers[i].definition = "tile"
                     /\ \E t \in DOMAIN project.tilesets :
                           project.tilesets[t] = project.layers[i].defaultTileset
                     /\ project.layers[i].defaultTileset.label =
                           rawProject.layers[i].defaultTileset

\* Ogmo.Project threw for its second layer definition, after a tile layer
\* whose tileset it found
C8_Witness ==
    /\ pc = "project"
    /\ projectRet.threw
    /\ projectRet.error.index = 1
    /\ rawProject.layers[1].definition = "tile"
    /\ Len(rawProject.tilesets) > 0

\* the entity placements of the level, as <<layer place, record place>>, and
\* those whose name has no factory
Placements(kind) ==
    IF Unresolved # {} THEN {}
    ELSE UNION {{<<k, n>> : n \in 1..Len(IF kind = "entity"
                                         THEN rawLevel.layers[k].entities
                                         ELSE rawLevel.layers[k].decals)} :
                   k \in {k \in LevelPlaces : KindOf(k) = kind}}

Unmade ==
    {p \in Placements("entity") :
        rawLevel.layers[p[1]].entities[p[2]].name \notin project.entityFactories}

Earlier(p, q) == p[1] < q[1] \/ (p[1] = q[1] /\ p[2] < q[2])

FirstPlacement(S) == CHOOSE p \in S : \A q \in S : p = q \/ Earlier(p, q)

Calls(op, p) ==
    {i \in DOMAIN effects :
        /\ effects[i].op = op
        /\ effects[i].layer = p[1] - 1
        /\ effects[i].index = p[2] - 1}

Scopes(k) ==
    {i \in DOMAIN effects :
        /\ effects[i].op = "useChild"
        /\ effects[i].depth = 1
        /\ effects[i].layer = k - 1}

IsDecalCall(e) == e.op = "decalFactory"

\* C10: an entity factory is called with a copy of the placement record whose
\* rotation is the record's rotation times pi / 180 (pi / 2 for 90), 0 when the
\* record has none, and whose other fields are the record's; a decal factory
\* is called with the placement record itself, its rotation as in the level
\* (1.2 stays 1.2), and Ogmo.Decal gives its geometry that same rotation.
C10_RotationAsymmetry ==
    /\ \A i \in DOMAIN effects :
          /\ effects[i].op = "entityFactory" =>
                LET src == rawLevel.layers[effects[i].layer + 1].entities[effects[i].index + 1]
                    arg == effects[i].arg
                IN  /\ ~effects[i].sameObject
                    /\ DOMAIN arg = DOMAIN src \cup {"rotation"}
                    /\ \A f \in DOMAIN src \ {"rotation"} : arg[f] = src[f]
                    /\ IF "rotation" \in DOMAIN src
                       THEN SameNumber(arg.rotation,
                               [n |-> src.rotation.n, d |-> src.rotation.d * 180, pi |-> 1])
                       ELSE arg.rotation = Num(0, 1)
                    /\ src = Player => SameNumber(arg.rotation, [n |-> 1, d |-> 2, pi |-> 1])
          /\ effects[i].op = "decalFactory" =>
                LET src == rawLevel.layers[effects[i].layer + 1].decals[effects[i].index + 1]
                IN  /\ effects[i].sameObject
                    /\ effects[i].arg = src
                    /\ src = Tree => effects[i].arg.rotation = Num(12, 10)
    /\ LET made == SelectSeq(effects, IsDecalCall)
       IN  \A j \in DOMAIN decals :
              decals[j].geometry.rotation = Field(made[j].arg, "rotation")

\* a level realized with entities of rotation 90, 0 and none, and with
\* Ogmo.Decal components of rotation 1.2 and none
C10_Witness ==
    /\ LevelBuilt
    /\ \E i \in DOMAIN effects :
          effects[i].op = "entityFactory" /\ effects[i].arg.id = Player.id
    /\ \E i \in DOMAIN effects :
          effects[i].op = "entityFactory" /\ effects[i].arg.id = Coin.id
    /\ \E i \in DOMAIN effects :
          effects[i].op = "entityFactory" /\ effects[i].arg.id = Statue.id
    /\ Len(decals) = 2
    /\ decals[1].geometry.rotation = Num(12, 10)
    /\ decals[2].geometry.rotation = Undefined

IsLayerScope(e) == e.op = "useChild" /\ e.depth = 1

IsNaming(e) == e.op = "useEntityName"

IsFactoryCall(e) == e.op \in {"entityFactory", "decalFactory"}

\* the places in effects of the calls made for the layer at place k
EffectsOf(k) == {i \in DOMAIN effects : effects[i].layer = k - 1}

\* C11: for a level built without error, useLevel has opened one child scope
\* per level layer, in the layers' order, and named each after the name of the
\* layer definition its _eid resolves to; the factory calls are one per
\* placement record, in the order of (layer, record), each made after its
\* layer's scope was opened and before the next layer's; tile and grid layers
\* have no factory call and grid layers no draw callback.  (The scopes counted
\* are those useLevel opens itself; what a factory opens for the object it
\* creates is the factory's.)
C11_RealizationOrder ==
    LevelBuilt =>
       LET scopes == SelectSeq(effects, IsLayerScope)
           names == SelectSeq(effects, IsNaming)
           made == SelectSeq(effects, IsFactoryCall)
       IN  /\ Len(scopes) = Len(rawLevel.layers)
           /\ Len(names) = Len(rawLevel.layers)
           /\ \A k \in LevelPlaces :
                 /\ scopes[k].layer = k - 1
                 /\ names[k].layer = k - 1
                 /\ names[k].name =
                       rawProject.layers[First(Definitions(rawLevel.layers[k]._eid))].name
                 /\ \E i \in EffectsOf(k) :
                       /\ IsLayerScope(effects[i])
                       /\ IsNaming(effects[i + 1])
                       /\ \A h \in EffectsOf(k) : i <= h
                 /\ KindOf(k) \in {"tile", "grid"} =>
                       \A i \in EffectsOf(k) : ~IsFactoryCall(effects[i])
                 /\ KindOf(k) = "grid" =>
                       \A i \in EffectsOf(k) : effects[i].op # "useDraw"
           /\ \A i, h \in DOMAIN effects : i <= h => effects[i].layer <= effects[h].layer
           /\ Len(made) = Cardinality(Placements("entity") \cup Placements("decal"))
           /\ \A i \in DOMAIN made :
                 /\ <<made[i].layer + 1, made[i].index + 1>> \in
                       Placements(IF made[i].op = "entityFactory" THEN "entity" ELSE "decal")
                 /\ made[i].op = "entityFactory" =>
                       made[i].arg.id =
                          rawLevel.layers[made[i].layer + 1].entities[made[i].index + 1].id
                 /\ made[i].op = "decalFactory" =>
                       made[i].arg =
                          rawLevel.layers[made[i].layer + 1].decals[made[i].index + 1]
                 /\ \A h \in DOMAIN made :
                       i < h => Earlier(<<made[i].layer, made[i].index>>,
                                        <<made[h].layer, made[h].index>>)

\* a level of a decal layer then an entity layer was built, the decals by
\* Ogmo.Decal, so that further scopes were opened inside the decal layer's
C11_Witness ==
    /\ LevelBuilt
    /\ Len(rawLevel.layers) = 2
    /\ KindOf(1) = "decal"
    /\ KindOf(2) = "entity"
    /\ Len(decals) = 2
    /\ Cardinality(Placements("entity")) = 3
    /\ rawProject.layers[1].definition = "entity"

----------------------------------------------------------------------------
(* Ogmo.Decal: the image load that the decal starts and nobody awaits *)

Rectangle(width, height) == [width |-> width, height |-> height]

\* the pictures behind the textures of the level documents
ImageSize(url) == IF url = "tree.png" THEN Rectangle(32, 16) ELSE Rectangle(8, 8)

\* what image.data can be once load() has resolved: nothing, a picture without
\* width, one without height, the picture
ImageData(url) ==
    {Undefined,
     Rectangle(0, ImageSize(url).height),
     Rectangle(ImageSize(url).width, 0),
     ImageSize(url)}

\* the decal when its load() has resolved with image.data = data
Loaded(decal, data) ==
    [decal EXCEPT !.loading = FALSE,
                  !.image = IF data = Undefined THEN [url |-> decal.image.url]
                            ELSE [url |-> decal.image.url, data |-> data]]

\* the function given to image.load().then
LoadHandler(decal) ==
    LET data == Field(decal.image, "data")
    IN  IF data = Undefined THEN decal
        ELSE IF data.width = 0 \/ data.height = 0 THEN decal
        ELSE [decal EXCEPT !.geometry.shape = Rectangle(data.width, data.height)]

\* every decal drawn with the one geometry the handler last wrote
CompleteLoadShared(ds, j, data) ==
    [h \in DOMAIN ds |->
        IF h = j THEN LoadHandler(Loaded(ds[j], data))
        ELSE [ds[h] EXCEPT !.geometry.shape =
                              LoadHandler(Loaded(ds[j], data)).geometry.shape]]

\* the decals after the load of decal j resolved and its handler ran: the
\* handler closes over its own decal's geometry and image
CompleteLoad(ds, j, data) == [ds EXCEPT ![j] = LoadHandler(Loaded(ds[j], data))]

\* a job of the promise queue: it runs when no call is on the stack, so after
\* useLevel has returned or thrown
ImageLoaded(j, data) ==
    /\ pc = "level"
    /\ j \in DOMAIN decals
    /\ decals[j].loading
    /\ data \in ImageData(decals[j].image.url)
    /\ decals' = CompleteLoad(decals, j, data)
    /\ UNCHANGED <<pc, rawProject, project, projectRet, rawLevel, levelRet, effects>>
    /\ UNCHANGED gridVars
    /\ UNCHANGED genVars

\* load() rejected: then() was given no second function, the handler never runs
ImageLoadRejected(j) ==
    /\ pc = "level"
    /\ j \in DOMAIN decals
    /\ decals[j].loading
    /\ decals' = [decals EXCEPT ![j].loading = FALSE]
    /\ UNCHANGED <<pc, rawProject, project, projectRet, rawLevel, levelRet, effects>>
    /\ UNCHANGED gridVars
    /\ UNCHANGED genVars

\* project documents with a decal layer after entity layers, and level layers
\* of decals and entities
DecalProjectLayerLists ==
    {l \in RawProjectLayerLists :
        /\ Len(l) >= 1
        /\ l[Len(l)].definition = "decal"
        /\ \A i \in 1..(Len(l) - 1) : l[i].definition = "entity"}

DecalLevels ==
    {levelData \in RawLevels :
        \A k \in DOMAIN levelData.layers : levelData.layers[k]._eid \in {"D", "E"}}

\* a project built by Ogmo.Project without a decal factory
InitDecals ==
    /\ GridIdle
    /\ pc = "project"
    /\ \E layers \in DecalProjectLayerLists :
          /\ rawProject = [tilesets |-> <<RawTileset("ground")>>, layers |-> layers]
          /\ LET r == OgmoProject(rawProject, EntityFactoryNames, "default")
             IN  /\ project = r.project
                 /\ projectRet = [threw |-> r.threw, error |-> r.error]
    /\ rawLevel = NoLevel
    /\ levelRet = [threw |-> FALSE, error |-> NoError, level |-> NoLevel]
    /\ effects = <<>>
    /\ decals = <<>>

NextDecals ==
    \/ \E levelData \in DecalLevels : UseLevel(levelData)
    \/ \E j \in DOMAIN decals : \E data \in ImageData(decals[j].image.url) :
          ImageLoaded(j, data)
    \/ \E j \in DOMAIN decals : ImageLoadRejected(j)

SpecDecals == InitDecals /\ [][NextDecals]_vars

\* what a settled decal's shape has to be: the rectangle of its own picture,
\* the placeholder when the picture is missing or has no width or no height
ShapeFor(decal) ==
    IF "data" \in DOMAIN decal.image
       /\ decal.image.data.width # 0
       /\ decal.image.data.height # 0
    THEN Rectangle(decal.image.data.width, decal.image.data.height)
    ELSE Rectangle(1, 1)

\* the decal records handed to the decal factory, in the order of the calls
DecalRecords ==
    LET made == SelectSeq(effects, IsDecalCall)
    IN  [j \in DOMAIN made |-> made[j].arg]

\* in every state: there is one decal per factory call, each with the image of
\* its own record; a decal whose load is pending has the placeholder and one
\* whose load is over has the shape of its own image data; running a handler
\* again changes nothing
C12_Shapes ==
    /\ DOMAIN decals = DOMAIN DecalRecords
    /\ \A j \in DOMAIN decals :
          /\ decals[j].image.url = DecalRecords[j].texture
          /\ decals[j].geometry.position = Vector(DecalRecords[j].x, DecalRecords[j].y)
          /\ decals[j].loading =>
                /\ decals[j].geometry.shape = Rectangle(1, 1)
                /\ "data" \notin DOMAIN decals[j].image
          /\ ~decals[j].loading =>
                /\ decals[j].geometry.shape = ShapeFor(decals[j])
                /\ "data" \in DOMAIN decals[j].image =>
                      /\ decals[j].image.data \in ImageData(DecalRecords[j].texture)
                      /\ ShapeFor(decals[j]) \in
                            {Rectangle(1, 1), ImageSize(DecalRecords[j].texture)}
                /\ LoadHandler(decals[j]) = decals[j]
                /\ LoadHandler(LoadHandler(decals[j])) = LoadHandler(decals[j])

\* in every step: useLevel returns or throws with every load pending and every
\* shape the placeholder; afterwards a step settles one pending decal, gives
\* it the shape of its own image data, and leaves the rest of its geometry,
\* every other decal, the level and the log of hook calls as they were
C12_Steps ==
    /\ pc = "project" /\ pc' = "level" =>
          \A j \in DOMAIN decals' :
             /\ decals'[j].loading
             /\ decals'[j].geometry.shape = Rectangle(1, 1)
    /\ pc = "level" =>
          /\ pc' = "level"
          /\ <<levelRet, effects, rawLevel>>' = <<levelRet, effects, rawLevel>>
          /\ DOMAIN decals' = DOMAIN decals
          /\ \E j \in DOMAIN decals :
                /\ decals[j].loading
                /\ ~decals'[j].loading
                /\ decals'[j].geometry =
                      [decals[j].geometry EXCEPT !.shape = ShapeFor(decals'[j])]
                /\ \A h \in DOMAIN decals \ {j} : decals'[h] = decals[h]

\* C12: with Ogmo.Decal as the decal factory, no load handler runs before
\* useLevel is over; whatever the order in which the loads end, a handler sets
\* only its own decal's shape, to the rectangle of that decal's image width
\* and height, or leaves the 1x1 placeholder when the image data is missing
\* or has zero width or height; no other decal changes, and a handler run
\* again leaves the shape as it is.
C12_FireAndForget == []C12_Shapes /\ [][C12_Steps]_vars

\* a level of two decal layers, the entity behind them unmade: the last decal
\* has its picture while the first decal's load is pending, the second has
\* ended without image data and the third with a picture of no width
C12_Witness ==
    /\ pc = "level"
    /\ Len(decals) = 4
    /\ decals[1].loading
    /\ ~decals[2].loading
    /\ decals[2].geometry.shape = Rectangle(1, 1)
    /\ "data" \notin DOMAIN decals[2].image
    /\ ~decals[3].loading
    /\ Field(decals[3].image, "data") = Rectangle(0, 16)
    /\ decals[3].geometry.shape = Rectangle(1, 1)
    /\ decals[4].geometry.shape = Rectangle(8, 8)

====
